---- MODULE Spec2Model ----
(***************************************************************************)
(* Model of the RPD core of advanced_rpd.py: the curve fitter              *)
(* (fit_revenue_parameters / fit_period_parameters), the revenue projector *)
(* (RevenueCalculator.create_revenue_df) and the yearly aggregator         *)
(* (calculate_yearly_rpd).                                                 *)
(*                                                                         *)
(* Numbers.  The code computes in IEEE doubles; the model computes in      *)
(* exact rationals [k |-> "num", n, d] (d > 0, lowest terms) extended by   *)
(* the two special doubles the code can produce, "inf" and "nan", and by   *)
(* "none" for an absent table cell (None / NaN-as-missing in pandas).      *)
(*                                                                         *)
(* Dates are day numbers: day 0 is 2023-01-01.                             *)
(***************************************************************************)
EXTENDS Integers, Sequences, FiniteSets, TLC

(***************************************************************************)
(* Bounds of the model                                                     *)
(***************************************************************************)
\* last calendar year that may be given parameters or aggregated
MaxYear == 2025
\* largest daily activation count (active_users) tried
MaxActiveUsers == 1
\* the fitter's exponent b is searched in -MaxExponent..MaxExponent
MaxExponent == 1

\* the calendar year of day number 0
EpochYear == 2023
\* first calendar year that may be aggregated (one year before day 0)
MinYear == EpochYear - 1

(***************************************************************************)
(* Extended rational arithmetic (the model of float arithmetic)            *)
(***************************************************************************)
Abs(x) == IF x < 0 THEN -x ELSE x

RECURSIVE Gcd(_, _)
Gcd(x, y) == IF y = 0 THEN x ELSE Gcd(y, x % y)

Num(n, d) ==
    LET s == IF d < 0 THEN -1 ELSE 1
        g == Gcd(Abs(n), Abs(d))
    IN  [k |-> "num", n |-> (s * n) \div g, d |-> (s * d) \div g]

R(n) == [k |-> "num", n |-> n, d |-> 1]
Zero == R(0)
None == [k |-> "none", n |-> 0, d |-> 1]
NaN  == [k |-> "nan",  n |-> 0, d |-> 1]
Inf  == [k |-> "inf",  n |-> 0, d |-> 1]

\* x + y on numbers
RAdd(x, y) ==
    IF x.d = 1 /\ y.d = 1 THEN R(x.n + y.n)
    ELSE LET g == Gcd(x.d, y.d)
         IN  Num(x.n * (y.d \div g) + y.n * (x.d \div g), (x.d \div g) * y.d)

\* x * y on numbers, cancelling across before multiplying
RMul(x, y) ==
    IF x.d = 1 /\ y.d = 1 THEN R(x.n * y.n) ELSE
    LET g1 == Gcd(Abs(x.n), y.d)
        g2 == Gcd(Abs(y.n), x.d)
        a1 == IF g1 = 0 THEN 1 ELSE g1
        a2 == IF g2 = 0 THEN 1 ELSE g2
    IN  Num((x.n \div a1) * (y.n \div a2), (x.d \div a2) * (y.d \div a1))

\* 1 / x for a number x # 0
RInv(x) == Num(x.d, x.n)

\* x^b for a number x > 0 and an integer b
RECURSIVE RPow(_, _)
RPow(x, b) ==
    IF b = 0 THEN R(1)
    ELSE IF b < 0 THEN RInv(RPow(x, -b))
    ELSE RMul(x, RPow(x, b - 1))

\* float addition:  nan absorbs, inf absorbs numbers
FAdd(x, y) ==
    IF x.k = "nan" \/ y.k = "nan" THEN NaN
    ELSE IF x.k = "inf" \/ y.k = "inf" THEN Inf
    ELSE RAdd(x, y)

\* float multiplication by a positive number y
FMul(x, y) ==
    IF x.k = "nan" \/ y.k = "nan" THEN NaN
    ELSE IF x.k = "inf" \/ y.k = "inf" THEN Inf
    ELSE RMul(x, y)

\* numpy float division of non-negative operands: a zero divisor gives
\* inf (nan for 0/0) with a warning, never an exception
FDiv(x, y) ==
    IF x.k = "nan" \/ y.k = "nan" THEN NaN
    ELSE IF x.k = "inf" THEN (IF y.k = "inf" THEN NaN ELSE Inf)
    ELSE IF y.k = "inf" THEN Zero
    ELSE IF y.n = 0 THEN (IF x.n = 0 THEN NaN ELSE Inf)
    ELSE RMul(x, RInv(y))

(***************************************************************************)
(* Calendar (pandas Timestamp arithmetic on whole days)                    *)
(***************************************************************************)
IsLeap(y) == (y % 4 = 0 /\ y % 100 # 0) \/ y % 400 = 0
DaysIn(y) == IF IsLeap(y) THEN 366 ELSE 365

\* day number of January 1 of year y
RECURSIVE YearStart(_)
YearStart(y) ==
    IF y = EpochYear THEN 0
    ELSE IF y > EpochYear THEN YearStart(y - 1) + DaysIn(y - 1)
    ELSE YearStart(y + 1) - DaysIn(y)

\* day number of December 31 of year y
Dec31(y) == YearStart(y + 1) - 1

\* calendar year of day number t
YearOf(t) == CHOOSE y \in (MinYear - 1)..(MaxYear + 2) : YearStart(y) <= t /\ t <= Dec31(y)

(***************************************************************************)
(* Curve fitter                                                            *)
(***************************************************************************)
\* the four period types, in the order create_revenue_df walks them
PeriodTypes == <<"week", "month", "quarter", "year">>

\* RevenueCalculator.__init__: the checkpoint set of each period type
week_points    == <<1, 3, 7>>
month_points   == <<1, 3, 7>>
quarter_points == <<1, 3, 4>>
year_points    == <<1, 2, 3>>

\* the cycle length in days of a period type
PeriodDays(period_type) ==
    CASE period_type = "week"    -> 7
      [] period_type = "month"   -> 30
      [] period_type = "quarter" -> 90
      [] OTHER                   -> 365

\* log_power_function under exp: a * x^b
PowerLaw(x, a, b) == RMul(a, RPow(x, b))

\* scipy curve_fit on observations that lie exactly on a power law
\* a * x^b with an integer exponent: the least-squares optimum has zero
\* residual and is that (a, b).  Mismatched lengths fail to broadcast and
\* a non-finite log(rate) is refused by curve_fit: both raise ValueError.
CurveFit(periods, log_args) ==
    IF Len(periods) # Len(log_args) THEN [ok |-> FALSE, a |-> Zero, b |-> 0]
    ELSE IF \E i \in 1..Len(log_args) : log_args[i].n <= 0
         THEN [ok |-> FALSE, a |-> Zero, b |-> 0]
    ELSE LET b == CHOOSE e \in (-MaxExponent)..MaxExponent :
                     \A i \in 1..Len(periods) :
                        RMul(log_args[i], RPow(R(periods[1]), e))
                          = RMul(log_args[1], RPow(R(periods[i]), e))
         IN  [ok |-> TRUE, a |-> RMul(log_args[1], RPow(R(periods[1]), -b)), b |-> b]

\* fit_revenue_parameters without the all-zero test: every vector is fitted
fit_revenue_parameters_NoSentinel(days, retention_rates) ==
    CurveFit(days, retention_rates)

\* fit_revenue_parameters(days, retention_rates)
fit_revenue_parameters(days, retention_rates) ==
    IF \A i \in 1..Len(retention_rates) : retention_rates[i] = Zero
    THEN [ok |-> TRUE, a |-> Zero, b |-> 0]
    ELSE CurveFit(days, retention_rates)

\* RevenueCalculator.fit_period_parameters(retention_rates, period_type)
fit_period_parameters(retention_rates, period_type) ==
    LET periods == CASE period_type = "week"    -> week_points
                     [] period_type = "month"   -> month_points
                     [] period_type = "quarter" -> quarter_points
                     [] OTHER                   -> year_points
    IN  fit_revenue_parameters(periods, retention_rates)

\* RevenueCalculator.calculate_retention_rate(days, a, b, period_type)
calculate_retention_rate(days, a, b, period_type) ==
    IF a = Zero /\ b = 0 THEN Zero
    ELSE LET periods == CASE period_type = "week"    -> Num(days, 7)
                          [] period_type = "month"   -> Num(days, 30)
                          [] period_type = "quarter" -> Num(days, 90)
                          [] OTHER                   -> Num(days, 365)
         IN  PowerLaw(periods, a, b)

(***************************************************************************)
(* Inputs tried                                                            *)
(***************************************************************************)
\* observation vectors on a power law a * x^b
Decay137(a)  == <<a, RMul(a, Num(1, 3)), RMul(a, Num(1, 7))>>
Decay134(a)  == <<a, RMul(a, Num(1, 3)), RMul(a, Num(1, 4))>>
Decay123(a)  == <<a, RMul(a, Num(1, 2)), RMul(a, Num(1, 3))>>
Growth137(a) == <<a, RMul(a, R(3)), RMul(a, R(7))>>
Const(a)     == <<a, a, a>>
AllZero      == <<Zero, Zero, Zero>>

\* a decaying cohort year; the weights sum to 1
ParamsDecay ==
    [week    |-> <<Decay137(Num(1, 2)), Num(2, 5)>>,
     month   |-> <<Growth137(Num(1, 10)), Num(2, 5)>>,
     quarter |-> <<Decay134(Num(2, 5)), Num(1, 10)>>,
     year    |-> <<Decay123(Num(3, 5)), Num(1, 10)>>]

\* only the yearly plan is active; the weights do not sum to 1
ParamsYearOnly ==
    [week    |-> <<AllZero, Num(2, 5)>>,
     month   |-> <<AllZero, Num(3, 10)>>,
     quarter |-> <<AllZero, Num(3, 10)>>,
     year    |-> <<Decay123(Num(4, 5)), R(1)>>]

\* flat weekly retention
ParamsFlat ==
    [week    |-> <<Const(Num(3, 10)), Num(2, 5)>>,
     month   |-> <<Growth137(Num(1, 10)), Num(2, 5)>>,
     quarter |-> <<Decay134(Num(2, 5)), Num(1, 10)>>,
     year    |-> <<Decay123(Num(3, 5)), Num(1, 10)>>]

\* a monthly observation above 1
ParamsOver ==
    [ParamsDecay EXCEPT !.month = <<Decay137(Num(3, 2)), Num(2, 5)>>]

\* a negative quarterly observation
ParamsNegative ==
    [ParamsDecay EXCEPT !.quarter = <<<<Num(2, 5), Num(-1, 5), Num(1, 10)>>, Num(1, 10)>>]

\* some but not all monthly observations are 0
ParamsPartZero ==
    [ParamsDecay EXCEPT !.month = <<<<Num(1, 2), Zero, Zero>>, Num(2, 5)>>]

\* two yearly observations for three checkpoints
ParamsShortList ==
    [ParamsDecay EXCEPT !.year = <<<<Num(3, 5), Num(3, 10)>>, Num(1, 10)>>]

\* the parameters of main(): no 'quarter' entry
ParamsNoQuarter ==
    [week  |-> <<Decay137(Num(1, 2)), Num(2, 5)>>,
     month |-> <<Growth137(Num(1, 10)), Num(2, 5)>>,
     year  |-> <<Decay123(Num(3, 5)), Num(1, 5)>>]

ShortParams ==
    {ParamsDecay, ParamsYearOnly, ParamsOver, ParamsNegative, ParamsPartZero,
     ParamsShortList, ParamsNoQuarter}

\* 2023-11-30 and 2023-12-25
ShortStarts == {Dec31(EpochYear) - 31, Dec31(EpochYear) - 6}
\* 2023-12-31 and 2024-01-08
ShortEnds == {Dec31(EpochYear), Dec31(EpochYear) + 8}
\* 2023-12-31 .. 2024-12-31
LongStart == Dec31(EpochYear)
LongEnd   == Dec31(EpochYear + 1)

\* yearly_params for the years lo..hi: first for lo, rest for the others
YearlyParams(lo, hi, first, rest) ==
    [y \in lo..hi |-> IF y = lo THEN first ELSE rest]

(***************************************************************************)
(* State                                                                   *)
(***************************************************************************)
VARIABLES
    active_users,   \* create_revenue_df argument
    start_date,     \* create_revenue_df argument (day number)
    end_date,       \* create_revenue_df argument (day number)
    yearly_params,  \* create_revenue_df argument: year -> period -> <<rates, weight>>
    pc,             \* "fit", "built", "aggregate", "done", "error"
    fit_pos,        \* number of (year, period) pairs the fitting loop has passed
    fit_calls,      \* the calls made to the curve fitter so far, in order
    year_params,    \* year -> period -> [a, b, revenue_prop]
    df,             \* the revenue table, once built
    start_year,     \* calculate_yearly_rpd argument
    end_year,       \* calculate_yearly_rpd argument
    year,           \* calculate_yearly_rpd loop variable
    users_cumulative,   \* calculate_yearly_rpd local, of the last year computed
    revenue_cumulative, \* calculate_yearly_rpd local, of the last year computed
    results,        \* calculate_yearly_rpd: year -> [RPD, Growth_Rate]
    error           \* the exception that ended the run, or "none"

vars == <<active_users, start_date, end_date, yearly_params, pc, fit_pos, fit_calls,
          year_params, df, start_year, end_year, year, users_cumulative,
          revenue_cumulative, results, error>>

inputs == <<active_users, start_date, end_date, yearly_params>>
aggregation == <<start_year, end_year, year, users_cumulative, revenue_cumulative, results>>

NoTable == [index |-> <<>>, users |-> <<>>, rev |-> <<>>]
Empty == [x \in {} |-> 0]

\* the keys of a dict of years in iteration order (inserted ascending)
YearsSeq(S) ==
    [i \in 1..Cardinality(S) |-> CHOOSE y \in S : Cardinality({z \in S : z < y}) = i - 1]

Init ==
    /\ \/ /\ active_users \in 0..MaxActiveUsers
          /\ start_date \in ShortStarts
          /\ end_date \in ShortEnds
          /\ \E lo \in EpochYear..MaxYear, hi \in EpochYear..MaxYear :
               \E first \in ShortParams, rest \in ShortParams :
                  /\ lo <= hi
                  /\ yearly_params = YearlyParams(lo, hi, first, rest)
       \/ /\ active_users = MaxActiveUsers
          /\ start_date = LongStart
          /\ end_date = LongEnd
          /\ yearly_params = YearlyParams(EpochYear, EpochYear + 1, ParamsFlat, ParamsYearOnly)
    /\ pc = "fit"
    /\ fit_pos = 0
    /\ fit_calls = <<>>
    /\ year_params = Empty
    /\ df = NoTable
    /\ start_year = 0
    /\ end_year = 0
    /\ year = 0
    /\ users_cumulative = 0
    /\ revenue_cumulative = Zero
    /\ results = Empty
    /\ error = "none"

(***************************************************************************)
(* Revenue projector: RevenueCalculator.create_revenue_df                  *)
(***************************************************************************)
base_revenue == 1000

\* the fitting loop stopping after the first year
FitDone_FirstYearOnly == fit_pos >= 4

\* the fitting loop is over when every (year, period) pair was passed
FitDone == fit_pos = 4 * Cardinality(DOMAIN yearly_params)

\* one pass of the inner fitting loop: the next (year, period) pair
FitNext ==
    /\ pc = "fit"
    /\ ~FitDone
    /\ LET y      == YearsSeq(DOMAIN yearly_params)[(fit_pos \div 4) + 1]
           period == PeriodTypes[(fit_pos % 4) + 1]
           params == yearly_params[y]
           \* year_params[year] = {} when the year's inner loop starts
           sofar  == IF fit_pos % 4 = 0 THEN Empty ELSE year_params[y]
           With(entry) == [z \in DOMAIN year_params \cup {y} |->
                             IF z = y THEN entry ELSE year_params[z]]
       IN  IF period \notin DOMAIN params
           THEN /\ pc' = "error"
                /\ error' = "KeyError"
                /\ year_params' = With(sofar)
                /\ UNCHANGED <<fit_pos, fit_calls>>
           ELSE LET retention_rates == params[period][1]
                    revenue_prop    == params[period][2]
                    fit             == fit_period_parameters(retention_rates, period)
                IN  /\ fit_calls' = Append(fit_calls, <<y, period>>)
                    /\ IF fit.ok
                       THEN /\ year_params' =
                                 With((period :> [a |-> fit.a, b |-> fit.b,
                                                  revenue_prop |-> revenue_prop]) @@ sofar)
                            /\ fit_pos' = fit_pos + 1
                            /\ UNCHANGED <<pc, error>>
                       ELSE /\ pc' = "error"
                            /\ error' = "ValueError"
                            /\ year_params' = With(sofar)
                            /\ UNCHANGED fit_pos
    /\ UNCHANGED <<inputs, df, aggregation>>

\* is the offset day a payment day of some period type
PaymentDay(day) ==
    \E i \in 1..Len(PeriodTypes) : day % PeriodDays(PeriodTypes[i]) = 0

\* the inner loop with total_revenue assigned instead of accumulated: the
\* last paying period type wins
RECURSIVE TotalRevenue_Overwrite(_, _, _)
TotalRevenue_Overwrite(cohort_params, day, i) ==
    IF i > Len(PeriodTypes) THEN Zero
    ELSE LET period == PeriodTypes[i]
             rest   == TotalRevenue_Overwrite(cohort_params, day, i + 1)
         IN  IF day % PeriodDays(period) = 0 /\ rest = Zero
             THEN LET p == cohort_params[period]
                      retention_rate == calculate_retention_rate(day, p.a, p.b, period)
                  IN  RMul(RMul(R(base_revenue), p.revenue_prop), retention_rate)
             ELSE rest

\* the inner loop over the period types: total_revenue of one cell
RECURSIVE TotalRevenue(_, _, _)
TotalRevenue(cohort_params, day, i) ==
    IF i > Len(PeriodTypes) THEN Zero
    ELSE LET period == PeriodTypes[i]
             rest   == TotalRevenue(cohort_params, day, i + 1)
         IN  IF day % PeriodDays(period) = 0
             THEN LET p == cohort_params[period]
                      retention_rate == calculate_retention_rate(day, p.a, p.b, period)
                      period_base_revenue == RMul(R(base_revenue), p.revenue_prop)
                  IN  RAdd(RMul(period_base_revenue, retention_rate), rest)
             ELSE rest

\* the range test off by one
CellPresent_OffByOne(idx, day, len_dates) == idx + day <= len_dates

\* is the cell of row idx at offset day inside the table's date range
CellPresent(idx, day, len_dates) == idx + day < len_dates

\* the cell with the day-0 revenue split by the revenue shares of the year
Cell_Day0ByShare(fitted, date, idx, day, len_dates) ==
    IF CellPresent(idx, day, len_dates)
    THEN IF day = 0
         THEN (IF YearOf(date) \in DOMAIN fitted
               THEN LET p == fitted[YearOf(date)]
                    IN  RMul(R(base_revenue),
                             RAdd(RAdd(p.week.revenue_prop, p.month.revenue_prop),
                                  RAdd(p.quarter.revenue_prop, p.year.revenue_prop)))
               ELSE R(base_revenue))
         ELSE IF ~PaymentDay(day) THEN Zero
         ELSE TotalRevenue(fitted[YearOf(date)], day, 1)
    ELSE None

\* one cell of the table: row idx (activation date date), offset day
Cell(fitted, date, idx, day, len_dates) ==
    IF CellPresent(idx, day, len_dates)
    THEN IF day = 0 THEN R(base_revenue)
         ELSE IF ~PaymentDay(day) THEN Zero
         ELSE TotalRevenue(fitted[YearOf(date)], day, 1)
    ELSE None

\* does some cell look up the parameters of a year that was not given
MissingYear(fitted, start, len_dates) ==
    \E day \in 1..(len_dates - 1) :
       /\ PaymentDay(day)
       /\ \E idx \in 0..(len_dates - 1 - day) : YearOf(start + idx) \notin DOMAIN fitted

\* the table loops, after the fitting loop
BuildTable ==
    /\ pc = "fit"
    /\ FitDone
    /\ LET len_dates == end_date - start_date + 1
       IN  IF MissingYear(year_params, start_date, len_dates)
           THEN /\ pc' = "error"
                /\ error' = "KeyError"
                /\ UNCHANGED df
           ELSE /\ pc' = "built"
                /\ df' = [index |-> [idx \in 0..(len_dates - 1) |-> start_date + idx],
                          users |-> [idx \in 0..(len_dates - 1) |-> active_users],
                          rev   |-> [idx \in 0..(len_dates - 1) |->
                                       [day \in 0..(len_dates - 1) |->
                                          Cell(year_params, start_date + idx, idx, day, len_dates)]]]
                /\ UNCHANGED error
    /\ UNCHANGED <<inputs, fit_pos, fit_calls, year_params, aggregation>>

(***************************************************************************)
(* Yearly aggregator: calculate_yearly_rpd                                 *)
(***************************************************************************)
\* the call calculate_yearly_rpd(df, start_year, end_year) on a built table
StartAggregate ==
    /\ pc = "built"
    /\ \E sy \in MinYear..MaxYear, ey \in MinYear..MaxYear :
          /\ sy <= ey
          /\ start_year' = sy
          /\ end_year' = ey
          /\ year' = sy
    /\ pc' = "aggregate"
    /\ results' = Empty
    /\ UNCHANGED <<inputs, fit_pos, fit_calls, year_params, df, users_cumulative,
                   revenue_cumulative, error>>

\* df.index.year <= y: the rows of the mask
MaskCumulative(table, y) == {idx \in DOMAIN table.index : YearOf(table.index[idx]) <= y}

\* df[mask]['激活人数'].sum(), over the rows lo..hi (halving keeps the
\* evaluation shallow; the sum is the same)
RECURSIVE SumUsers(_, _, _, _)
SumUsers(table, mask, lo, hi) ==
    IF lo > hi THEN 0
    ELSE IF lo = hi THEN (IF lo \in mask THEN table.users[lo] ELSE 0)
    ELSE LET mid == (lo + hi) \div 2
         IN  SumUsers(table, mask, lo, mid) + SumUsers(table, mask, mid + 1, hi)

\* the offset of January 1 of the next year instead of December 31
DaysUntilYearEnd_NextJan1(y, date) == YearStart(y + 1) - date

\* (Timestamp(year-12-31) - idx).days
DaysUntilYearEnd(y, date) == Dec31(y) - date

\* row[revenue_cols].sum() for the columns day<lo> .. day<hi>: absent cells are skipped
RECURSIVE RowSum(_, _, _)
RowSum(row, lo, hi) ==
    IF lo > hi THEN Zero
    ELSE IF lo = hi THEN (IF row[lo].k = "none" THEN Zero ELSE row[lo])
    ELSE LET mid == (lo + hi) \div 2
         IN  RAdd(RowSum(row, lo, mid), RowSum(row, mid + 1, hi))

\* the loop over the rows of the mask, rows lo..hi
RECURSIVE SumRevenue(_, _, _, _, _)
SumRevenue(table, mask, y, lo, hi) ==
    IF lo > hi THEN Zero
    ELSE IF lo = hi
         THEN (IF lo \in mask
               THEN RowSum(table.rev[lo], 0, DaysUntilYearEnd(y, table.index[lo]))
               ELSE Zero)
    ELSE LET mid == (lo + hi) \div 2
         IN  RAdd(SumRevenue(table, mask, y, lo, mid), SumRevenue(table, mask, y, mid + 1, hi))

\* index of the table's last row
LastRow(table) == Cardinality(DOMAIN table.index) - 1

\* a row of the mask asks for a column the table does not have
MissingColumn(table, mask, y) ==
    \E idx \in mask :
       DaysUntilYearEnd(y, table.index[idx]) \notin DOMAIN table.rev[idx]

\* the growth rate with the ratio upside down
GrowthRate_Inverted(rpd_year, previous) ==
    FMul(FAdd(FDiv(previous, rpd_year), R(-1)), R(100))

\* (rpd_year / previous - 1) * 100
GrowthRate(rpd_year, previous) ==
    FMul(FAdd(FDiv(rpd_year, previous), R(-1)), R(100))

\* one pass of the loop over the years
AggregateYear ==
    /\ pc = "aggregate"
    /\ year <= end_year
    /\ LET mask == MaskCumulative(df, year)
       IN  IF MissingColumn(df, mask, year)
           THEN /\ pc' = "error"
                /\ error' = "KeyError"
                /\ users_cumulative' = SumUsers(df, mask, 0, LastRow(df))
                /\ revenue_cumulative' = Zero
                /\ UNCHANGED <<year, results>>
           ELSE LET users    == SumUsers(df, mask, 0, LastRow(df))
                    revenue  == SumRevenue(df, mask, year, 0, LastRow(df))
                    rpd_year == FDiv(revenue, R(users))
                    entry    == IF year > start_year
                                THEN [RPD |-> rpd_year,
                                      Growth_Rate |-> GrowthRate(rpd_year, results[year - 1].RPD)]
                                ELSE [RPD |-> rpd_year]
                IN  /\ users_cumulative' = users
                    /\ revenue_cumulative' = revenue
                    /\ results' = (year :> entry) @@ results
                    /\ year' = year + 1
                    /\ UNCHANGED <<pc, error>>
    /\ UNCHANGED <<inputs, fit_pos, fit_calls, year_params, df, start_year, end_year>>

\* return results
Return ==
    /\ pc = "aggregate"
    /\ year > end_year
    /\ pc' = "done"
    /\ UNCHANGED <<inputs, fit_pos, fit_calls, year_params, df, aggregation, error>>

Next == FitNext \/ BuildTable \/ StartAggregate \/ AggregateYear \/ Return

Spec == Init /\ [][Next]_vars

(***************************************************************************)
(* Helpers of the properties                                               *)
(***************************************************************************)
\* the table exists: create_revenue_df has returned it
TableBuilt == pc \in {"built", "aggregate", "done"}

\* the largest day offset of the table: endDate - startDate
MaxOffset == end_date - start_date

\* sum of the numbers f[lo], ..., f[hi]
RECURSIVE SumOver(_, _, _)
SumOver(f, lo, hi) ==
    IF lo > hi THEN Zero
    ELSE IF lo = hi THEN f[lo]
    ELSE LET mid == (lo + hi) \div 2
         IN  RAdd(SumOver(f, lo, mid), SumOver(f, mid + 1, hi))

\* what a period type with fitted (a, b, weight) pays at offset day:
\* baseRevenue * weight * a * (day / cycle)^b on a multiple of its cycle
\* (nothing for the inactive sentinel (0, 0)), nothing on any other day
Contribution(p, cycle, day) ==
    IF day % cycle # 0 THEN Zero
    ELSE IF p.a = Zero /\ p.b = 0 THEN Zero
    ELSE RMul(RMul(R(1000), p.revenue_prop), RMul(p.a, RPow(R(day \div cycle), p.b)))

ExpectedRevenue(p, day) ==
    RAdd(RAdd(Contribution(p.week, 7, day), Contribution(p.month, 30, day)),
         RAdd(Contribution(p.quarter, 90, day), Contribution(p.year, 365, day)))

\* C1: the cell (d, day) of the returned table is absent exactly when d + day
\* is later than endDate, and every other cell holds a number; the table has
\* one row per date of [startDate, endDate] and one column per offset
\* 0..(endDate - startDate).
C1_AbsentIffPastEnd ==
    pc = "built" =>
       /\ DOMAIN df.rev = 0..MaxOffset
       /\ \A idx \in 0..MaxOffset :
             /\ df.index[idx] = start_date + idx
             /\ DOMAIN df.rev[idx] = 0..MaxOffset
             /\ \A day \in 0..MaxOffset :
                   /\ (df.rev[idx][day] = None) <=> (start_date + idx + day > end_date)
                   /\ (df.rev[idx][day] # None) => df.rev[idx][day].k = "num"

\* a built table with an absent cell and a present cell at an offset > 0
C1_Witness ==
    /\ pc = "built"
    /\ \E idx \in 0..MaxOffset, day \in 1..MaxOffset :
          /\ df.rev[idx][day] = None
          /\ df.rev[idx][day - 1] # None
          /\ day - 1 > 0

\* C2: a present cell (d, day), day > 0, holds the sum over the period types
\* whose cycle length divides day of baseRevenue * weight * evaluate(day / cycle,
\* a, b), with (a, b, weight) of the activation year of d; contributions of
\* several period types add up, and a day no cycle divides holds exactly 0.
C2_RenewalRevenue ==
    pc = "built" =>
       \A idx \in 0..MaxOffset :
          \A day \in 1..(MaxOffset - idx) :
             IF day % 7 # 0 /\ day % 30 # 0 /\ day % 90 # 0 /\ day % 365 # 0
             THEN df.rev[idx][day] = Zero
             ELSE /\ YearOf(start_date + idx) \in DOMAIN year_params
                  /\ df.rev[idx][day] =
                        ExpectedRevenue(year_params[YearOf(start_date + idx)], day)

\* a cohort of one year realised in the next year, whose parameters differ,
\* at day 90, where the monthly and the quarterly plan both pay
C2_Witness ==
    /\ pc = "built"
    /\ MaxOffset >= 90
    /\ \E idx \in 0..(MaxOffset - 90) :
          LET own   == YearOf(start_date + idx)
              other == YearOf(start_date + idx + 90)
          IN  /\ own # other
              /\ other \in DOMAIN year_params
              /\ Contribution(year_params[own].month, 30, 90) # Zero
              /\ Contribution(year_params[own].quarter, 90, 90) # Zero
              /\ df.rev[idx][90] # ExpectedRevenue(year_params[other], 90)
              /\ df.rev[idx][90] = RAdd(Contribution(year_params[own].month, 30, 90),
                                        Contribution(year_params[own].quarter, 90, 90))

\* C3: the day-0 cell of every activation date is the base revenue 1000,
\* whatever the rates and weights of the cohort's year.
C3_Day0IsBaseRevenue ==
    pc = "built" => \A idx \in 0..MaxOffset : df.rev[idx][0] = R(1000)

\* a built table with a cohort year whose weekly rates are all 0 and whose
\* weights do not sum to 1
C3_Witness ==
    /\ pc = "built"
    /\ \E idx \in 0..MaxOffset :
          LET p == yearly_params[YearOf(start_date + idx)]
          IN  /\ p.week[1] = AllZero
              /\ RAdd(RAdd(p.week[2], p.month[2]), RAdd(p.quarter[2], p.year[2])) # R(1)
              /\ df.rev[idx][0] = R(1000)

\* the revenue a year Y should count, taken column by column: the present
\* cells (d, day) with year(d) <= Y and d + day on or before December 31 of Y
\* (limit is the day number of that December 31)
CountedInColumn(table, limit, day) ==
    SumOver([idx \in DOMAIN table.index |->
               IF /\ table.index[idx] + day <= limit
                  /\ table.index[idx] <= limit
                  /\ table.rev[idx][day].k # "none"
               THEN table.rev[idx][day] ELSE Zero],
            0, Cardinality(DOMAIN table.index) - 1)

CountedRevenue(table, Y) ==
    LET limit == YearStart(Y + 1) - 1
    IN  SumOver([day \in DOMAIN table.index |-> CountedInColumn(table, limit, day)],
                0, Cardinality(DOMAIN table.index) - 1)

\* C4: the cumulative revenue used for a year Y is the sum of exactly the
\* present cells (d, day) with year(d) <= Y and d + day on or before
\* December 31 of Y (year - 1 is the year the loop has just finished).
C4_RevenueRealizedByYearEnd ==
    (pc = "aggregate" /\ year > start_year) =>
        revenue_cumulative = CountedRevenue(df, year - 1)

\* a year was aggregated that counts a renewal cell and leaves out a
\* non-zero cell of a counted cohort that is realised in the next year
C4_Witness ==
    /\ pc = "aggregate"
    /\ year > start_year
    /\ \E idx \in 0..MaxOffset :
          /\ YearOf(start_date + idx) <= year - 1
          /\ \E day \in 1..(MaxOffset - idx) :
                /\ start_date + idx + day <= Dec31(year - 1)
                /\ df.rev[idx][day] # Zero
          /\ \E day \in 1..(MaxOffset - idx) :
                /\ start_date + idx + day > Dec31(year - 1)
                /\ df.rev[idx][day] # Zero

\* C5: a year whose cumulative user count is zero ends the aggregation in an
\* error: no RPD that is infinity or NaN is ever stored in the results.
C5_ZeroUsersIsAnError ==
    \A y \in DOMAIN results : results[y].RPD.k = "num"

\* an observation vector the spec calls invalid: a rate outside [0, 1], or a
\* length other than that of the checkpoint set (three)
InvalidRates(rates) ==
    \/ Len(rates) # 3
    \/ \E i \in 1..Len(rates) : rates[i].n < 0 \/ rates[i].n > rates[i].d

InvalidInput ==
    \E y \in DOMAIN yearly_params :
       \E period \in DOMAIN yearly_params[y] : InvalidRates(yearly_params[y][period][1])

\* C6: with an invalid observation among the inputs the core raises before
\* any curve is fitted: no invalid vector reaches the fitter and no
\* parameters or table are produced.
C6_InvalidInputRejected ==
    InvalidInput =>
       /\ df = NoTable
       /\ \A y \in DOMAIN year_params : DOMAIN year_params[y] = {}
       /\ \A i \in 1..Len(fit_calls) :
             ~InvalidRates(yearly_params[fit_calls[i][1]][fit_calls[i][2]][1])

\* some but not all of the rates are 0
PartlyZero(rates) ==
    /\ \E i \in 1..Len(rates) : rates[i] = Zero
    /\ \E i \in 1..Len(rates) : rates[i] # Zero

\* C7: an all-zero observation vector is fitted to the sentinel (0, 0);
\* evaluate with (0, 0) is 0 at every offset and period type; so a period
\* type whose observations are all zero adds 0 to every cell, whatever its
\* weight; a vector with some but not all rates 0 ends in a fitting error.
C7_AllZeroSentinel ==
    /\ \A i \in 1..Len(fit_calls) :
          LET y      == fit_calls[i][1]
              period == fit_calls[i][2]
              rates  == yearly_params[y][period][1]
          IN  /\ (\A j \in 1..Len(rates) : rates[j] = Zero) =>
                    /\ y \in DOMAIN year_params
                    /\ period \in DOMAIN year_params[y]
                    /\ year_params[y][period].a = Zero
                    /\ year_params[y][period].b = 0
              /\ PartlyZero(rates) =>
                    /\ pc = "error"
                    /\ error = "ValueError"
                    /\ i = Len(fit_calls)
                    /\ df = NoTable
                    /\ (y \in DOMAIN year_params => period \notin DOMAIN year_params[y])
    /\ pc = "built" =>
          /\ \A day \in 1..MaxOffset :
                \A i \in 1..Len(PeriodTypes) :
                   calculate_retention_rate(day, Zero, 0, PeriodTypes[i]) = Zero
          /\ \A idx \in 0..MaxOffset :
                LET given  == yearly_params[YearOf(start_date + idx)]
                    fitted == year_params[YearOf(start_date + idx)]
                    Active(period, cycle, day) ==
                        IF given[period][1] = AllZero THEN Zero
                        ELSE Contribution(fitted[period], cycle, day)
                IN  \A day \in 1..(MaxOffset - idx) :
                       YearOf(start_date + idx) \in DOMAIN yearly_params =>
                       df.rev[idx][day] =
                          RAdd(RAdd(Active("week", 7, day), Active("month", 30, day)),
                               RAdd(Active("quarter", 90, day), Active("year", 365, day)))

\* a built table with a cohort whose weekly rates are all 0 under a non-zero
\* weight, holding 0 at day 7 and a non-zero yearly renewal at day 365
C7_Witness ==
    /\ pc = "built"
    /\ MaxOffset >= 365
    /\ \E idx \in 0..(MaxOffset - 365) :
          LET given == yearly_params[YearOf(start_date + idx)]
          IN  /\ given.week[1] = AllZero
              /\ given.week[2] # Zero
              /\ df.rev[idx][7] = Zero
              /\ df.rev[idx][365] # Zero

\* C8: the first year's record has no growth rate; the record of each later
\* year Y has the growth rate (RPD(Y) / RPD(Y-1) - 1) * 100 of the RPD values
\* stored for Y and Y - 1 (NaN when one of the two is not a number).
C8_GrowthRate ==
    \A y \in DOMAIN results :
       IF y = start_year
       THEN DOMAIN results[y] = {"RPD"}
       ELSE /\ DOMAIN results[y] = {"RPD", "Growth_Rate"}
            /\ y - 1 \in DOMAIN results
            /\ LET rpd      == results[y].RPD
                   previous == results[y - 1].RPD
                   growth   == results[y].Growth_Rate
               IN  IF rpd.k = "num" /\ previous.k = "num"
                   THEN /\ growth.k = "num"
                        /\ previous.n # 0
                        \* growth = (rpd / previous - 1) * 100, solved for rpd
                        /\ RMul(RAdd(RMul(growth, Num(1, 100)), R(1)), previous) = rpd
                   ELSE growth = NaN

\* a finished aggregation of two years with a non-zero numeric growth rate
C8_Witness ==
    /\ pc = "done"
    /\ end_year > start_year
    /\ results[end_year].RPD.k = "num"
    /\ results[end_year - 1].RPD.k = "num"
    /\ results[end_year].Growth_Rate.k = "num"
    /\ results[end_year].Growth_Rate.n # 0
    /\ "Growth_Rate" \notin DOMAIN results[start_year]

\* the calendar years of the activation dates
ActivationYears == YearOf(start_date)..YearOf(end_date)

\* C9: for a built table and start_year <= end_year within the years of its
\* range the aggregation completes, with one record per year of the range.
C9_AggregateCompletes ==
    (/\ pc \in {"aggregate", "done", "error"}
     /\ df # NoTable
     /\ start_year \in ActivationYears
     /\ end_year \in ActivationYears) =>
        /\ pc # "error"
        /\ pc = "done" => DOMAIN results = start_year..end_year

\* the set of (year, period type) pairs the fitter was called for
FittedPairs == {fit_calls[i] : i \in 1..Len(fit_calls)}

AllPeriods == {PeriodTypes[i] : i \in 1..Len(PeriodTypes)}

\* C10 as stated: the fitter is called once for each (year, period type)
\* pair of the activation years and for no other pair, all before the first
\* cell; every activation year has fitted parameters when the table is built.
C10_FitOnlyActivationYears ==
    /\ \A i \in 1..Len(fit_calls) : fit_calls[i][1] \in ActivationYears
    /\ TableBuilt => FittedPairs = ActivationYears \X AllPeriods

\* C10 amended: the fitter is called at most once per pair and only for the
\* years given in yearly_params, in the order of the years and period types;
\* when the table exists it was called exactly once for every (given year,
\* period type) pair, inside or outside the activation range, each given year
\* has parameters for all four period types, and no call follows; a failed
\* fit for a year outside the activation range ends the run without a table,
\* and only given years ever have parameters.
C10_FitOncePerGivenPair ==
    /\ \A i \in 1..Len(fit_calls) :
          /\ fit_calls[i][1] \in DOMAIN yearly_params
          /\ fit_calls[i][1] = YearsSeq(DOMAIN yearly_params)[((i - 1) \div 4) + 1]
          /\ fit_calls[i][2] = PeriodTypes[((i - 1) % 4) + 1]
          /\ fit_calls[i][1] \notin ActivationYears
               /\ ~fit_period_parameters(yearly_params[fit_calls[i][1]][fit_calls[i][2]][1],
                                       fit_calls[i][2]).ok
                  => pc = "error" /\ df = NoTable
          /\ \A j \in 1..Len(fit_calls) : fit_calls[i] = fit_calls[j] => i = j
    /\ Len(fit_calls) <= 4 * Cardinality(DOMAIN yearly_params)
    /\ DOMAIN year_params \subseteq DOMAIN yearly_params
    /\ TableBuilt =>
          /\ Len(fit_calls) = 4 * Cardinality(DOMAIN yearly_params)
          /\ FittedPairs = (DOMAIN yearly_params) \X AllPeriods
          /\ DOMAIN year_params = DOMAIN yearly_params
          /\ \A y \in DOMAIN year_params : DOMAIN year_params[y] = AllPeriods

\* a built table whose yearly_params hold a year outside the activation
\* range, which was fitted
C10_Witness ==
    /\ pc = "built"
    /\ \E y \in DOMAIN yearly_params :
          /\ y \notin ActivationYears
          /\ <<y, "quarter">> \in FittedPairs

====
